---- MODULE Spec2Model ----
(***************************************************************************)
(* Model of src/main.py: a resumable scan over consecutive phone numbers.  *)
(* main_entrypoint reads the proxy list and the resume file, login walks   *)
(* the proxies until one yields an authorized client, validate_users       *)
(* looks each number up with get_names, appends a row to the result store  *)
(* for every account found and rewrites the resume file after every        *)
(* classified number.                                                      *)
(*                                                                         *)
(* Text (the resume file, a phone number, a line of the proxy list) is a   *)
(* sequence of one-character strings.                                      *)
(***************************************************************************)
EXTENDS Integers, Sequences, FiniteSets, TLC

\* ---------------------------------------------------------------- bounds
\* Advances of the cursor over a whole behaviour (all runs together).
MaxAdvances == 3
\* Runs of the program (the first start and the operator's restarts).
MaxRuns == 2
\* Lines of the proxy list in the specification of read_proxy_settings.
MaxProxyLines == 2

\* The longest numeral written in the cursor round trip.
MaxNumeralLen == 2
\* Nested get_names frames the interpreter allows before it raises
\* RecursionError (CPython: sys.getrecursionlimit(), 1000 by default; the
\* source never raises it).  Scaled down; every formula is independent of
\* the value.
RecursionLimit == 2

\* ------------------------------------------------------------------ text
Digits == <<"0", "1", "2", "3", "4", "5", "6", "7", "8", "9">>

IsDigit(c) == \E i \in 1..10 : Digits[i] = c

DigitVal(c) == (CHOOSE i \in 1..10 : Digits[i] = c) - 1

Whitespace == {" ", "\n"}

\* str.strip(): leading and trailing white space removed.
RECURSIVE lstrip(_)
lstrip(s) ==
    IF s # <<>> /\ Head(s) \in Whitespace THEN lstrip(Tail(s)) ELSE s

RECURSIVE rstrip(_)
rstrip(s) ==
    IF s # <<>> /\ s[Len(s)] \in Whitespace
    THEN rstrip(SubSeq(s, 1, Len(s) - 1))
    ELSE s

strip(s) == rstrip(lstrip(s))

\* f.readline(): the text up to and including the first line break.
RECURSIVE readline(_)
readline(s) ==
    IF s = <<>> THEN <<>>
    ELSE IF Head(s) = "\n" THEN <<"\n">>
    ELSE <<Head(s)>> \o readline(Tail(s))

\* A decimal numeral: one digit or more, nothing else.
IsNumeral(s) == s # <<>> /\ \A i \in 1..Len(s) : IsDigit(s[i])

RECURSIVE NumeralValue(_)
NumeralValue(s) ==
    IF s = <<>> THEN 0
    ELSE NumeralValue(SubSeq(s, 1, Len(s) - 1)) * 10 + DigitVal(s[Len(s)])

\* int(s) raises ValueError unless s, stripped, is a numeral (signs and
\* underscores never occur in the texts of this model).
IntParses(s) == IsNumeral(strip(s))

int(s) == NumeralValue(strip(s))

\* str(n) for n >= 0: the numeral without leading zeros.
RECURSIVE str(_)
str(n) ==
    IF n < 10 THEN <<Digits[n + 1]>>
    ELSE str(n \div 10) \o <<Digits[(n % 10) + 1]>>

\* ------------------------------------------------------- resume file I/O
read_last_checked_number(f) == strip(readline(f))

increment_phone_number_Same(phone) == str(int(phone))

increment_phone_number(phone) == str(int(phone) + 1)

\* ------------------------------------------------------------ proxy list
\* str.lower() on the letters that occur in the proxy lists of this model.
LowerChar(c) ==
    CASE c = "S" -> "s" [] c = "O" -> "o" [] c = "C" -> "c" [] c = "K" -> "k"
      [] OTHER -> c

lower(s) == [i \in 1..Len(s) |-> LowerChar(s[i])]

\* str.split(','): the fields between the commas, empty fields kept.
RECURSIVE split(_)
split(s) ==
    IF \A i \in 1..Len(s) : s[i] # ","
    THEN <<s>>
    ELSE LET i == CHOOSE k \in 1..Len(s) :
                      s[k] = "," /\ \A j \in 1..(k - 1) : s[j] # ","
         IN  <<SubSeq(s, 1, i - 1)>> \o split(SubSeq(s, i + 1, Len(s)))

\* An optional value: None, or the value wrapped.
None == <<>>

Some(x) == <<x>>

\* The tuple built at lines 29-36 from the fields of one line.
ProxyTuple(proxy_data) ==
    << IF lower(proxy_data[1]) = <<"s", "o", "c", "k", "s", "5">>
       THEN "SOCKS5" ELSE "HTTP",
       proxy_data[2],
       int(proxy_data[3]),
       TRUE,
       IF Len(proxy_data) > 3 THEN Some(proxy_data[4]) ELSE None,
       IF Len(proxy_data) > 4 THEN Some(proxy_data[5]) ELSE None >>

\* The guard of line 26: TRUE when the line is skipped.
SkipLine(proxy_data) == Len(proxy_data) < 3

\* `for line in f`: the lines of a text, each with its line break (the last
\* one may have none).
RECURSIVE FileLines(_)
FileLines(text) ==
    IF text = <<>> THEN <<>>
    ELSE LET line == readline(text)
         IN  <<line>> \o FileLines(SubSeq(text, Len(line) + 1, Len(text)))

\* The loop of lines 24-37 over the lines still to read.  raised is TRUE when
\* int() raised ValueError on some line: the function then returns nothing
\* and the exception leaves main_entrypoint.
RECURSIVE ReadProxyLines(_)
ReadProxyLines(lines) ==
    IF lines = <<>> THEN [raised |-> FALSE, proxies |-> <<>>]
    ELSE LET proxy_data == split(strip(Head(lines)))
             rest == ReadProxyLines(Tail(lines))
         IN  IF SkipLine(proxy_data) THEN rest
             ELSE IF ~IntParses(proxy_data[3])
                  THEN [raised |-> TRUE, proxies |-> <<>>]
                  ELSE IF rest.raised THEN rest
                       ELSE [raised |-> FALSE,
                             proxies |-> <<ProxyTuple(proxy_data)>> \o rest.proxies]

read_proxy_settings(text) == ReadProxyLines(FileLines(text))

\* Lines of a proxy list: well-formed ones and malformed ones.
LineSocks == <<"s", "o", "c", "k", "s", "5", ",", "h", ",", "8", "0", "\n">>

LineUpper ==
    <<"S", "O", "C", "K", "S", "5", ",", "h", ",", "8", "0", ",", "u", ",", "p", "\n">>

LineHttp == <<"h", "t", "t", "p", ",", "h", ",", "8", "0", ",", "u", "\n">>

LineBlank == <<"\n">>

LineTwoFields == <<"h", ",", "8", "0", "\n">>

LineBadPort == <<"h", "t", "t", "p", ",", "h", ",", "8", "o", "\n">>

LineSpaces == <<"x", ",", " ", "h", ",", " ", "8", "0">>

ProxyLines ==
    {LineSocks, LineUpper, LineHttp, LineBlank, LineTwoFields, LineBadPort, LineSpaces}

RECURSIVE SeqsUpTo(_, _)
SeqsUpTo(S, n) ==
    IF n = 0 THEN {<<>>}
    ELSE LET shorter == SeqsUpTo(S, n - 1)
         IN  shorter \cup {Append(q, x) : q \in shorter, x \in S}

RECURSIVE Concat(_)
Concat(q) == IF q = <<>> THEN <<>> ELSE Head(q) \o Concat(Tail(q))

\* The proxy.txt files of the specification of read_proxy_settings.
ProxyFiles == {Concat(q) : q \in SeqsUpTo(ProxyLines, MaxProxyLines)}

\* The proxy.txt files of the scan: no proxy, one, two with a skipped line
\* between them, and one whose port is no number.
ScanProxyFiles ==
    { <<>>, LineSocks, LineHttp \o LineBlank \o LineSocks, LineBadPort }

\* The resume files a scan starts from: a numeral, with or without the line
\* break and leading zeros.
StartFiles == { <<"8">>, <<"0", "9", "\n">>, <<"9", "8">> }

\* ------------------------------------------------------- the remote service
\* seconds of a FloodWaitError
Waits == {1, 3}

\* ids of the accounts the service knows
UserIds == {7}

\* The error texts get_names stores (lines 82, 115-116, 123).  The text of
\* line 123 embeds the TypeError's own message, which is taken not to hold
\* the words "not on Telegram".
MsgNoResponse ==
    "No response, the phone number is not on Telegram or has blocked contact adding."

MsgMultiple ==
    "This phone number matched multiple Telegram accounts, which is unexpected. Please contact the developer."

MsgTypeError ==
    "TypeError: ... The error might have occurred due to the inability to delete the phone_number from the contact list."

\* `"not on Telegram" in error` (line 145)
NotOnTelegramIn_Any(error) == TRUE

NotOnTelegramIn(error) == error = MsgNoResponse

\* What the service answers to ImportContactsRequest: a user list of 0, 1 or
\* 2 accounts (of each, the id is all get_names reads), or an exception.
ImportResponses ==
    {[kind |-> "users", users |-> <<>>]}
    \cup {[kind |-> "users", users |-> <<[id |-> u]>>] : u \in UserIds}
    \cup {[kind |-> "users", users |-> <<[id |-> u], [id |-> u + 1]>>] : u \in UserIds}
    \cup {[kind |-> "FloodWaitError", seconds |-> w] : w \in Waits}
    \cup {[kind |-> "Exception"]}

\* What the service answers to DeleteContactsRequest for the account of
\* number phone: Updates with a user list (the user, with the fields the
\* import answer lacks, or nothing), Updates whose users is None
\* (subscripting it raises TypeError), or an exception.
DeleteResponses(phone) ==
    {[kind |-> "users", users |-> <<[id |-> u, phone |-> phone]>>] : u \in UserIds}
    \cup {[kind |-> "users", users |-> <<>>]}
    \cup {[kind |-> "users_none"]}
    \cup {[kind |-> "FloodWaitError", seconds |-> w] : w \in Waits}
    \cup {[kind |-> "Exception"]}

\* The exception a response makes the try block of get_names raise ("none":
\* the block completes).
RaisedBy(resp, step) ==
    CASE resp.kind = "FloodWaitError" -> "FloodWaitError"
      [] resp.kind = "Exception" -> "Exception"
      [] resp.kind = "users_none" -> "TypeError"
      [] resp.kind = "users" /\ step = "delete" /\ resp.users = <<>> -> "IndexError"
      [] OTHER -> "none"

\* The except clauses of lines 120-133, in their order: what get_names does
\* with an exception raised in its try block.
ExceptClause_Swallow(exc) ==
    CASE exc = "TypeError" -> "store_error"
      [] exc = "FloodWaitError" -> "sleep_retry"
      [] OTHER -> "store_error"

ExceptClause(exc) ==
    CASE exc = "TypeError" -> "store_error"
      [] exc = "FloodWaitError" -> "sleep_retry"
      [] OTHER -> "reraise"

\* lines 79, 85 and 112: the branch taken on number_of_matches.
MatchBranch_First(number_of_matches) ==
    IF number_of_matches = 0 THEN "none" ELSE "one"

MatchBranch(number_of_matches) ==
    CASE number_of_matches = 0 -> "none"
      [] number_of_matches = 1 -> "one"
      [] OTHER -> "many"

\* lines 91-111: the result filled from user, the first user of the delete
\* answer.
FoundResult(user) == [id |-> user.id, phone |-> user.phone]

\* asyncio.sleep(wait_time) of line 129: the seconds slept.
RateLimitSleep_Fixed(wait_time) == 5

RateLimitSleep(wait_time) == wait_time

\* The argument of the recursive call of line 130.
RetryNumber_Next(phone) == increment_phone_number(phone)

RetryNumber(phone) == phone

\* delay of line 139
delay == 5

\* ---------------------------------------------------------- result store
\* save_to_excel: the rows of the file, when it exists, then the new row.
save_to_excel_Overwrite(st, data) == [exists |-> TRUE, rows |-> <<data>>]

save_to_excel(st, data) ==
    [exists |-> TRUE,
     rows |-> (IF st.exists THEN st.rows ELSE <<>>) \o <<data>>]

NoStore == [exists |-> FALSE, rows |-> <<>>]

\* ------------------------------------------------------------------ state
VARIABLES
    proxyFile,     \* proxy.txt
    file,          \* the resume file
    store,         \* the result store: [exists, rows]
    pc,            \* where the program is; "off": no process
    exit,          \* how the last run ended ("Running" during a run)
    runs,          \* runs started
    advances,      \* advances of the cursor completed, all runs
    proxies,       \* main_entrypoint: the proxies read
    pidx,          \* login: index of the proxy of the current iteration
    clients,       \* login: state of the client made for each proxy tried
    client,        \* run_program: index of the client login returned, or 0
    codePrompts,   \* login: input() calls of the current iteration
    attempt,       \* history: what the current attempt of login has met
    pwPrompts,     \* login: getpass() calls of the current iteration
    phone_number,  \* validate_users: phone_number
    result,        \* validate_users: result
    gn_phone,      \* get_names: phone_number of the innermost frame
    depth,         \* get_names: frames on the stack
    gn_result,     \* get_names: result of the innermost frame
    users,         \* get_names: users
    wait_time,     \* get_names: wait_time
    slept,         \* seconds of the last asyncio.sleep, 0 once a request is sent
    answer,        \* history: the service's last answer in the current lookup
    sent,          \* history: the requests of the current call of get_names
    lookedUp,      \* history: numbers imported in this run, repeats dropped
    checked,       \* history: numbers get_names returned a result for, this run
    persisted,     \* history: the text of the last completed write of the cursor
    start,         \* history: [cursor, persisted, store] when the run started
    found,         \* history: the numbers whose last lookup returned a user
    snap           \* history: [file, store] after the last completed advance

vars ==
    << proxyFile, file, store, pc, exit, runs, advances, proxies, pidx, clients,
       client, codePrompts, pwPrompts, attempt, phone_number, result, gn_phone,
       depth,
       gn_result, users, wait_time, slept, answer, sent, lookedUp, checked,
       persisted, start, found, snap >>

loginVars == <<pidx, clients, client, codePrompts, pwPrompts, attempt>>

lookupVars == <<gn_phone, depth, gn_result, users, wait_time, answer, sent>>

durable == <<proxyFile, file, store>>

NoResult == [error |-> ""]

NoAnswer == [step |-> "none", resp |-> [kind |-> "none"], retries |-> 0]

Init ==
    /\ proxyFile \in ScanProxyFiles
    /\ file \in StartFiles
    /\ store = NoStore
    /\ pc = "off"
    /\ exit = "None"
    /\ runs = 0
    /\ advances = 0
    /\ proxies = <<>>
    /\ pidx = 0
    /\ clients = <<>>
    /\ client = 0
    /\ codePrompts = 0
    /\ pwPrompts = 0
    /\ attempt = {}
    /\ phone_number = <<>>
    /\ result = <<>>
    /\ gn_phone = <<>>
    /\ depth = 0
    /\ gn_result = NoResult
    /\ users = <<>>
    /\ wait_time = 0
    /\ slept = 0
    /\ answer = NoAnswer
    /\ sent = <<>>
    /\ lookedUp = <<>>
    /\ checked = <<>>
    /\ persisted = read_last_checked_number(file)
    /\ start = [cursor |-> <<>>, persisted |-> persisted, store |-> store]
    /\ snap = [file |-> file, store |-> store]
    /\ found = {}

\* ----------------------------------------------------------- entry point
\* main_entrypoint, lines 233-235: both files are read, then the event loop
\* starts run_program.  A ValueError of read_proxy_settings ends the process.
main_entrypoint ==
    /\ pc = "off"
    /\ runs < MaxRuns
    /\ runs' = runs + 1
    /\ LET r == read_proxy_settings(proxyFile)
           cursor == read_last_checked_number(file)
       IN  IF r.raised
           THEN /\ pc' = "off"
                /\ exit' = "ValueError"
                /\ UNCHANGED <<proxies, phone_number, start, snap>>
           ELSE /\ pc' = "login"
                /\ exit' = "Running"
                /\ proxies' = r.proxies
                /\ phone_number' = cursor
                /\ start' = [cursor |-> cursor, persisted |-> persisted,
                              store |-> store]
                /\ snap' = [file |-> file, store |-> store]
    /\ pidx' = 1
    /\ clients' = <<>>
    /\ client' = 0
    /\ codePrompts' = 0
    /\ pwPrompts' = 0
    /\ attempt' = {}
    /\ result' = <<>>
    /\ gn_phone' = <<>>
    /\ depth' = 0
    /\ gn_result' = NoResult
    /\ users' = <<>>
    /\ wait_time' = 0
    /\ slept' = 0
    /\ answer' = NoAnswer
    /\ sent' = <<>>
    /\ lookedUp' = <<>>
    /\ checked' = <<>>
    /\ UNCHANGED <<durable, advances, persisted, found>>

\* The process ends: pc "off", exit says how.
Ends(how) == pc' = "off" /\ exit' = how

\* ------------------------------------------------------------------ login
notLogin ==
    << found, durable, runs, advances, proxies, phone_number, result, lookupVars,
       slept, lookedUp, checked, persisted, start, snap >>

\* lines 161-167 and 186: the next proxy's client is made, or the list is
\* exhausted and "All proxies failed" is raised.
login_for ==
    /\ pc = "login"
    /\ IF pidx > Len(proxies)
       THEN /\ Ends("AllProxiesFailed")
            /\ UNCHANGED clients
       ELSE /\ clients' = Append(clients, "created")
            /\ pc' = "connect"
            /\ UNCHANGED exit
    /\ codePrompts' = 0
    /\ pwPrompts' = 0
    /\ attempt' = {}
    /\ UNCHANGED <<pidx, client, notLogin>>

\* line 169: client.connect()
login_connect ==
    /\ pc = "connect"
    /\ \E ok \in BOOLEAN :
         IF ok
         THEN /\ clients' = [clients EXCEPT ![pidx] = "connected"]
              /\ pc' = "is_user_authorized"
         ELSE /\ pc' = "except"
              /\ UNCHANGED clients
    /\ UNCHANGED <<exit, pidx, client, codePrompts, pwPrompts, attempt, notLogin>>

\* line 170: client.is_user_authorized()
login_is_user_authorized ==
    /\ pc = "is_user_authorized"
    /\ \E reply \in {"yes", "no", "raise"} :
         /\ pc' = CASE reply = "yes" -> "return"
                     [] reply = "no" -> "send_code_request"
                     [] OTHER -> "except"
         /\ attempt' = CASE reply = "yes" -> {"authorized"}
                          [] reply = "no" -> {"unauthorized"}
                          [] OTHER -> attempt
    /\ clients' = IF pc' = "return"
                  THEN [clients EXCEPT ![pidx] = "authorized"]
                  ELSE clients
    /\ UNCHANGED <<exit, pidx, client, codePrompts, pwPrompts, notLogin>>

\* line 171: client.send_code_request(PHONE_NUMBER)
login_send_code_request ==
    /\ pc = "send_code_request"
    /\ \E ok \in BOOLEAN :
         /\ pc' = IF ok THEN "sign_in" ELSE "except"
         /\ attempt' = IF ok THEN attempt \cup {"code_sent"} ELSE attempt
    /\ UNCHANGED <<exit, pidx, clients, client, codePrompts, pwPrompts, notLogin>>

AfterSignIn_NoPassword(reply) == IF reply = "ok" THEN "return" ELSE "except"

\* lines 174-176 and 183: where sign_in's outcome leads.
AfterSignIn(reply) ==
    CASE reply = "ok" -> "return"
      [] reply = "SessionPasswordNeededError" -> "password"
      [] OTHER -> "except"

\* lines 173-176: the code is read with input() and sign_in is called.
login_sign_in ==
    /\ pc = "sign_in"
    /\ codePrompts' = codePrompts + 1
    /\ \E reply \in {"ok", "SessionPasswordNeededError", "raise"} :
         /\ pc' = AfterSignIn(reply)
         /\ attempt' = IF reply = "SessionPasswordNeededError"
                        THEN attempt \cup {"password_needed"}
                        ELSE attempt
    /\ clients' = IF pc' = "return"
                  THEN [clients EXCEPT ![pidx] = "authorized"]
                  ELSE clients
    /\ UNCHANGED <<exit, pidx, client, pwPrompts, notLogin>>

\* lines 177-180: the password is read with getpass() and sign_in is called;
\* an exception raised here, inside the inner handler, reaches line 183.
login_password ==
    /\ pc = "password"
    /\ pwPrompts' = pwPrompts + 1
    /\ \E ok \in BOOLEAN :
         IF ok
         THEN /\ pc' = "return"
              /\ clients' = [clients EXCEPT ![pidx] = "authorized"]
         ELSE /\ pc' = "except"
              /\ UNCHANGED clients
    /\ UNCHANGED <<exit, pidx, client, codePrompts, attempt, notLogin>>

\* lines 181-182 and 247-248: login returns the client and validate_users
\* starts with an empty result.
login_return ==
    /\ pc = "return"
    /\ client' = pidx
    /\ pc' = "while"
    /\ codePrompts' = 0
    /\ pwPrompts' = 0
    /\ attempt' = {}
    /\ UNCHANGED <<exit, pidx, clients, notLogin>>

Disconnected_Noop(state, raises) == state

\* client.disconnect(): the client's state after the call, and whether the
\* call raised (a call that raises leaves the client as it was).
Disconnected(state, raises) == IF raises THEN state ELSE "disconnected"

\* lines 183-185: the handler disconnects the client and the loop goes on; an
\* exception of disconnect() is raised inside the handler and leaves login.
login_except ==
    /\ pc = "except"
    /\ \E raises \in BOOLEAN :
         /\ clients' = [clients EXCEPT ![pidx] = Disconnected(@, raises)]
         /\ IF raises
            THEN /\ Ends("DisconnectError")
                 /\ UNCHANGED pidx
            ELSE /\ pc' = "login"
                 /\ pidx' = pidx + 1
                 /\ UNCHANGED exit
    /\ UNCHANGED <<client, codePrompts, pwPrompts, attempt, notLogin>>

\* -------------------------------------------------------------- get_names
MsgUnexpected == "Unexpected error: ..."

Last(q) == q[Len(q)]

\* A number is noted as looked up when an import request carries it.
Noted(q, phone) ==
    IF q # <<>> /\ Last(q) = phone THEN q ELSE Append(q, phone)

notLookup ==
    << found, durable, runs, advances, proxies, loginVars, phone_number, result,
       checked, persisted, start, snap >>

\* lines 120-133: exception exc, raised in the try block by response resp, is
\* handled: an error result is stored and returned, or the wait is taken
\* from the exception, or the exception is raised again and leaves
\* get_names, validate_users and run_program.
Handle(exc, resp) ==
    LET clause == ExceptClause(exc)
    IN  /\ pc' = CASE clause = "store_error" -> "get_names_return"
                   [] clause = "sleep_retry" -> "flood_sleep"
                   [] OTHER -> "off"
        /\ exit' = IF clause = "reraise" THEN "Fatal" ELSE exit
        /\ gn_result' = CASE clause = "sleep_retry" -> gn_result
                          [] exc = "TypeError" -> [error |-> MsgTypeError]
                          [] OTHER -> [error |-> MsgUnexpected]
        /\ wait_time' = IF clause = "sleep_retry" /\ resp.kind = "FloodWaitError"
                        THEN resp.seconds
                        ELSE wait_time

\* lines 66-84 and 112-118: the import request is sent for the frame's number
\* and the answer's user list is counted.
get_names_import ==
    /\ pc = "import"
    /\ lookedUp' = Noted(lookedUp, gn_phone)
    /\ sent' = Append(sent, [req |-> "import", arg |-> gn_phone, on |-> client])
    /\ slept' = 0
    /\ \E resp \in ImportResponses :
         LET exc == RaisedBy(resp, "import")
         IN  /\ answer' = [step |-> "import", resp |-> resp, retries |-> depth - 1]
             /\ IF exc # "none"
                THEN /\ Handle(exc, resp)
                     /\ UNCHANGED users
                ELSE /\ users' = resp.users
                     /\ UNCHANGED <<exit, wait_time>>
                     /\ CASE MatchBranch(Len(resp.users)) = "none" ->
                               /\ gn_result' = [error |-> MsgNoResponse]
                               /\ pc' = "get_names_return"
                          [] MatchBranch(Len(resp.users)) = "one" ->
                               /\ gn_result' = gn_result
                               /\ pc' = "delete"
                          [] OTHER ->
                               /\ gn_result' = [error |-> MsgMultiple]
                               /\ pc' = "get_names_return"
    /\ UNCHANGED <<gn_phone, depth, notLookup>>

\* lines 85-111: the delete request is sent for the matched id and the result
\* is filled from the first user of the answer.
get_names_delete ==
    /\ pc = "delete"
    /\ sent' = Append(sent, [req |-> "delete", arg |-> users[1].id, on |-> client])
    /\ \E resp \in DeleteResponses(gn_phone) :
         LET exc == RaisedBy(resp, "delete")
         IN  /\ answer' = [step |-> "delete", resp |-> resp, retries |-> depth - 1]
             /\ IF exc # "none"
                THEN Handle(exc, resp)
                ELSE /\ gn_result' = FoundResult(resp.users[1])
                     /\ pc' = "get_names_return"
                     /\ UNCHANGED <<exit, wait_time>>
    /\ UNCHANGED <<gn_phone, depth, users, slept, lookedUp, notLookup>>

\* lines 127-129: the handler sleeps.
get_names_sleep ==
    /\ pc = "flood_sleep"
    /\ slept' = RateLimitSleep(wait_time)
    /\ pc' = "retry"
    /\ UNCHANGED <<exit, lookupVars, lookedUp, notLookup>>

\* line 130: get_names calls itself from inside the handler, one frame
\* deeper; past the interpreter's limit the call raises RecursionError, which
\* no frame catches.
get_names_retry ==
    /\ pc = "retry"
    /\ IF depth < RecursionLimit
       THEN /\ depth' = depth + 1
            /\ gn_phone' = RetryNumber(gn_phone)
            /\ gn_result' = NoResult
            /\ users' = <<>>
            /\ wait_time' = 0
            /\ sent' = <<>>
            /\ pc' = "import"
            /\ UNCHANGED exit
       ELSE /\ Ends("Fatal")
            /\ UNCHANGED <<depth, gn_phone, gn_result, users, wait_time, sent>>
    /\ UNCHANGED <<answer, slept, lookedUp, notLookup>>

\* lines 134-135 and 142: the innermost frame returns its result, every
\* frame above returns it unchanged, validate_users stores it.
get_names_return ==
    /\ pc = "get_names_return"
    /\ result' = [k \in DOMAIN result \cup {phone_number} |->
                    IF k = phone_number THEN gn_result ELSE result[k]]
    /\ checked' = Append(checked, phone_number)
    /\ depth' = 0
    /\ gn_phone' = <<>>
    /\ gn_result' = NoResult
    /\ users' = <<>>
    /\ wait_time' = 0
    /\ sent' = <<>>
    /\ found' = IF "error" \in DOMAIN gn_result
                THEN found \ {gn_phone}
                ELSE found \cup {gn_phone}
    /\ pc' = "classify"
    /\ UNCHANGED << durable, exit, runs, advances, proxies, loginVars,
                    phone_number, slept, answer, lookedUp, persisted, start,
                    snap >>

\* --------------------------------------------------------- validate_users
notLoop ==
    << found, proxyFile, exit, runs, proxies, loginVars, result, lookedUp, checked,
       start >>

\* lines 140-142: a number that is no key of result is looked up.
validate_users_while ==
    /\ pc = "while"
    /\ IF phone_number \notin DOMAIN result
       THEN /\ pc' = "import"
            /\ gn_phone' = phone_number
            /\ depth' = 1
            /\ answer' = NoAnswer
       ELSE UNCHANGED <<pc, gn_phone, depth, answer>>
    /\ UNCHANGED << file, store, advances, phone_number, gn_result, users,
                    wait_time, sent, slept, persisted, snap, notLoop >>

AfterClassify_NoSave(r) ==
    IF "error" \in DOMAIN r /\ ~NotOnTelegramIn(r.error) THEN "break" ELSE "increment"

\* lines 143-151: the statement that follows for result r: the number is
\* incremented (line 146), the loop is left (line 150) or the row is saved
\* (line 152).
AfterClassify(r) ==
    IF "error" \in DOMAIN r
    THEN IF NotOnTelegramIn(r.error) THEN "increment" ELSE "break"
    ELSE "save"

\* lines 143-151: the branch taken on the result just stored.
validate_users_classify ==
    /\ pc = "classify"
    /\ pc' = AfterClassify(result[phone_number])
    /\ UNCHANGED << file, store, advances, phone_number, lookupVars, slept,
                    persisted, snap, notLoop >>

\* line 152
validate_users_save ==
    /\ pc = "save"
    /\ store' = save_to_excel(store, result[phone_number])
    /\ pc' = "increment"
    /\ UNCHANGED << file, advances, phone_number, lookupVars, slept,
                    persisted, snap, notLoop >>

\* lines 146 and 153: int() raises ValueError on a text that is no numeral.
validate_users_increment ==
    /\ pc = "increment"
    /\ advances < MaxAdvances
    /\ IF IntParses(phone_number)
       THEN /\ phone_number' = increment_phone_number(phone_number)
            /\ pc' = "open"
            /\ exit' = exit
       ELSE /\ Ends("ValueError")
            /\ UNCHANGED phone_number
    /\ UNCHANGED << durable, found, runs, advances, proxies, loginVars, result,
                    lookupVars, slept, lookedUp, checked, persisted, start,
                    snap >>

\* open(file_path, 'w'): the file is cut to nothing.
open_w_Append(contents) == contents

open_w(contents) == <<>>

\* f.write(number), flushed when the with block closes the file.
f_write(contents, number) == contents \o number

\* line 45 (lines 147 and 154 call write_last_checked_number)
write_last_checked_number_open ==
    /\ pc = "open"
    /\ file' = open_w(file)
    /\ pc' = "write"
    /\ UNCHANGED << store, advances, phone_number, lookupVars, slept,
                    persisted, snap, notLoop >>

\* line 46
write_last_checked_number_write ==
    /\ pc = "write"
    /\ file' = f_write(file, phone_number)
    /\ pc' = "sleep"
    /\ advances' = advances + 1
    /\ persisted' = phone_number
    /\ snap' = [file |-> file', store |-> store]
    /\ UNCHANGED <<store, phone_number, lookupVars, slept, notLoop>>

PacingSleep_Skip(seconds) == 0

\* asyncio.sleep(delay) of line 155: the time that passes.
PacingSleep(seconds) == seconds

\* line 155
validate_users_sleep ==
    /\ pc = "sleep"
    /\ slept' = PacingSleep(delay)
    /\ pc' = "while"
    /\ UNCHANGED << file, store, advances, phone_number, lookupVars,
                    persisted, snap, notLoop >>

\* lines 150, 156 and 249: the loop is left, validate_users returns and
\* run_program disconnects the client.
validate_users_break ==
    /\ pc = "break"
    /\ \E raises \in BOOLEAN :
         clients' = [clients EXCEPT ![client] = Disconnected(@, raises)]
    /\ Ends("Halted")
    /\ UNCHANGED << durable, found, runs, advances, proxies, pidx, client,
                    codePrompts, pwPrompts, attempt, phone_number, result,
                    lookupVars,
                    slept, lookedUp, checked, persisted, start, snap >>

\* The process is ended from outside (an interrupt, a kill) between two
\* steps: nothing but what is on disk survives, the memory of the process and
\* the histories of the run go with it.
Terminate ==
    /\ pc # "off"
    /\ Ends("Killed")
    /\ proxies' = <<>>
    /\ pidx' = 0
    /\ clients' = <<>>
    /\ client' = 0
    /\ codePrompts' = 0
    /\ pwPrompts' = 0
    /\ attempt' = {}
    /\ phone_number' = <<>>
    /\ result' = <<>>
    /\ gn_phone' = <<>>
    /\ depth' = 0
    /\ gn_result' = NoResult
    /\ users' = <<>>
    /\ wait_time' = 0
    /\ slept' = 0
    /\ answer' = NoAnswer
    /\ sent' = <<>>
    /\ lookedUp' = <<>>
    /\ checked' = <<>>
    /\ start' = [cursor |-> <<>>, persisted |-> persisted, store |-> store]
    /\ snap' = [file |-> file, store |-> store]
    /\ UNCHANGED <<durable, runs, advances, persisted, found>>

Next ==
    \/ main_entrypoint
    \/ login_for
    \/ login_connect
    \/ login_is_user_authorized
    \/ login_send_code_request
    \/ login_sign_in
    \/ login_password
    \/ login_return
    \/ login_except
    \/ validate_users_while
    \/ get_names_import
    \/ get_names_delete
    \/ get_names_sleep
    \/ get_names_retry
    \/ get_names_return
    \/ validate_users_classify
    \/ validate_users_save
    \/ validate_users_increment
    \/ write_last_checked_number_open
    \/ write_last_checked_number_write
    \/ validate_users_sleep
    \/ validate_users_break
    \/ Terminate

Spec == Init /\ [][Next]_vars

\* The specification of read_proxy_settings alone: main_entrypoint on every
\* proxy list of ProxyFiles.
InitProxy ==
    /\ proxyFile \in ProxyFiles
    /\ file = <<"8">>
    /\ store = NoStore
    /\ pc = "off"
    /\ exit = "None"
    /\ runs = 0
    /\ advances = 0
    /\ proxies = <<>>
    /\ pidx = 0
    /\ clients = <<>>
    /\ client = 0
    /\ codePrompts = 0
    /\ pwPrompts = 0
    /\ attempt = {}
    /\ phone_number = <<>>
    /\ result = <<>>
    /\ gn_phone = <<>>
    /\ depth = 0
    /\ gn_result = NoResult
    /\ users = <<>>
    /\ wait_time = 0
    /\ slept = 0
    /\ answer = NoAnswer
    /\ sent = <<>>
    /\ lookedUp = <<>>
    /\ checked = <<>>
    /\ persisted = read_last_checked_number(file)
    /\ start = [cursor |-> <<>>, persisted |-> persisted, store |-> store]
    /\ snap = [file |-> file, store |-> store]
    /\ found = {}

NextProxy == main_entrypoint

SpecProxy == InitProxy /\ [][NextProxy]_vars

\* ================================================================= claims
\* The variant of AccountLookupResult a result of get_names stands for.
Classify(r) ==
    IF "error" \notin DOMAIN r THEN "Found"
    ELSE CASE r.error = MsgNoResponse -> "NotRegistered"
           [] r.error = MsgMultiple -> "AmbiguousMatch"
           [] r.error = MsgTypeError -> "TransientError"
           [] OTHER -> "FatalError"

\* The results, in the order checked, of the numbers of q classified Found.
RECURSIVE FoundRows(_)
FoundRows(q) ==
    IF q = <<>> THEN <<>>
    ELSE (IF Classify(result[Head(q)]) = "Found" THEN <<result[Head(q)]>> ELSE <<>>)
         \o FoundRows(Tail(q))

\* The numbers of this run are all classified and advanced over.
Processed == pc \in {"sleep", "while"} /\ exit = "Running"

\* C1: after the k-th outcome (k >= 1) of a run whose outcomes are
\* NotRegistered and Found only, the resume file holds the start cursor + k, and the store has
\* gained one row per Found outcome, in the order checked, and no other row.
C1_CursorAndRows ==
    ( /\ Processed
      /\ Len(checked) >= 1
      /\ \A i \in 1..Len(checked) :
           Classify(result[checked[i]]) \in {"NotRegistered", "Found"} )
    => /\ IntParses(start.cursor)
       /\ file = str(int(start.cursor) + Len(checked))
       /\ store.rows = start.store.rows \o FoundRows(checked)
       /\ \A i \in 1..Len(checked) : int(checked[i]) = int(start.cursor) + i - 1

C1_Witness ==
    /\ Processed
    /\ Len(checked) = 3
    /\ Classify(result[checked[1]]) = "NotRegistered"
    /\ Classify(result[checked[2]]) = "NotRegistered"
    /\ Classify(result[checked[3]]) = "Found"
    /\ store.rows = <<[id |-> 7, phone |-> checked[3]]>>
    /\ file = str(int(checked[3]) + 1)

\* The last number get_names returned a result for was classified
\* AmbiguousMatch or TransientError.
HaltingResult ==
    /\ checked # <<>>
    /\ Classify(result[Last(checked)]) \in {"AmbiguousMatch", "TransientError"}

\* C2: once a lookup is classified AmbiguousMatch or TransientError the loop
\* is left and the run ends Halted; the resume file and the store stay as
\* the last advance left them and no other number is looked up.
C2_HaltKeepsCursor ==
    HaltingResult
    => /\ pc \in {"classify", "break", "off"}
       /\ pc = "off" => exit = "Halted"
       /\ file = snap.file
       /\ store = snap.store
       /\ read_last_checked_number(file) = Last(checked)
       /\ Last(lookedUp) = Last(checked)
       /\ phone_number = Last(checked)

C2_Witness ==
    /\ pc = "off"
    /\ exit = "Halted"
    /\ Len(checked) = 2
    /\ Classify(result[checked[2]]) = "AmbiguousMatch"
    /\ file = checked[2]

\* The variant the service's answer calls for (it ends the lookup).
AnswerClass(a) ==
    CASE a.step = "import" /\ a.resp.kind = "users" /\ Len(a.resp.users) = 0
           -> "NotRegistered"
      [] a.step = "import" /\ a.resp.kind = "users" /\ Len(a.resp.users) > 1
           -> "AmbiguousMatch"
      [] a.step = "delete" /\ a.resp.kind = "users" /\ Len(a.resp.users) = 1
           -> "Found"
      [] a.step = "delete" /\ a.resp.kind = "users_none" -> "TransientError"
      [] OTHER -> "none"

\* C3: after a rate-limit signal with wait w, get_names sleeps w, no more and
\* no less, retries with the same number, and what it returns is classified
\* by the retry's answer; from the signal to the return the resume
\* file and the store are untouched, no other number is imported and the
\* run goes on.
C3_RateLimitRetry ==
    /\ pc = "flood_sleep"
         => answer.resp.kind = "FloodWaitError" /\ wait_time = answer.resp.seconds
    /\ pc = "retry" => slept = answer.resp.seconds
    /\ ( \/ pc \in {"flood_sleep", "retry"}
         \/ depth >= 2 /\ pc \in {"import", "delete", "get_names_return"} )
         => /\ gn_phone = phone_number
            /\ Last(lookedUp) = phone_number
            /\ phone_number \notin DOMAIN result
            /\ file = snap.file
            /\ store = snap.store
            /\ exit = "Running"
    /\ pc = "get_names_return"
         => /\ Classify(gn_result) = AnswerClass(answer)
            /\ exit = "Running"

C3_Witness ==
    /\ pc = "get_names_return"
    /\ depth = 2
    /\ slept = 0
    /\ Classify(gn_result) = "Found"
    /\ Len(checked) = 1

\* C4 as claimed: no count of rate-limit signals makes a lookup fail, so a run
\* ends with an exception of get_names only when the service's last answer
\* was itself an unexpected failure.
C4_AsClaimed ==
    (pc = "off" /\ exit = "Fatal") => answer.resp.kind # "FloodWaitError"

\* C5 as claimed: login fails with "All proxies failed" and nothing else,
\* and then every client it made has been disconnected and nothing was
\* looked up.
C5_AsClaimed ==
    (pc = "off" /\ exit \in {"AllProxiesFailed", "DisconnectError"})
    => /\ exit = "AllProxiesFailed"
       /\ \A i \in 1..Len(clients) : clients[i] = "disconnected"
       /\ lookedUp = <<>>

\* C6 as claimed: the first number a run looks up is the cursor the last
\* completed advance persisted (the resume file's numeral when there was
\* none).
C6_AsClaimed ==
    lookedUp # <<>> => lookedUp[1] = start.persisted

\* The service's last answer raised an exception that is neither a
\* rate-limit signal nor a TypeError.
UnexpectedFailure ==
    RaisedBy(answer.resp, answer.step) \notin {"none", "FloodWaitError", "TypeError"}

\* C7: an unexpected failure of a lookup leaves get_names and validate_users
\* and ends the run; the resume file and the store are as the last advance
\* left them, the cursor names the failing number and no result is recorded.
C7_FatalKeepsState ==
    /\ UnexpectedFailure
         => /\ pc = "off"
            /\ exit = "Fatal"
            /\ file = snap.file
            /\ store = snap.store
            /\ read_last_checked_number(file) = phone_number
            /\ phone_number \notin DOMAIN result
    /\ (pc = "off" /\ exit = "Fatal")
         => /\ file = snap.file
            /\ store = snap.store
            /\ read_last_checked_number(file) = phone_number

C7_Witness ==
    /\ pc = "off"
    /\ exit = "Fatal"
    /\ answer.resp.kind = "Exception"
    /\ answer.step = "delete"
    /\ Len(checked) = 2
    /\ Len(store.rows) = 1
    /\ file = phone_number

\* A line the claim calls well-formed: three fields or more, the third a
\* number.
WellFormedLine(line) ==
    LET proxy_data == split(strip(line))
    IN  Len(proxy_data) >= 3 /\ IntParses(proxy_data[3])

RECURSIVE ExpectedProxies(_)
ExpectedProxies(lines) ==
    IF lines = <<>> THEN <<>>
    ELSE (IF WellFormedLine(Head(lines))
          THEN <<ProxyTuple(split(strip(Head(lines))))>>
          ELSE <<>>)
         \o ExpectedProxies(Tail(lines))

\* C8 as claimed: read_proxy_settings never raises and returns one
\* descriptor per well-formed line, in file order, whatever the other lines.
C8_AsClaimed ==
    runs > 0
    => /\ exit # "ValueError"
       /\ proxies = ExpectedProxies(FileLines(proxyFile))

\* C9: the store only grows, one row at a time, at its end: a step that
\* changes it leaves a store that exists, keeps the rows it had, in their
\* order, and has one row more.
C9_AppendOnly ==
    [][ store' # store
        => /\ store'.exists
           /\ Len(store'.rows) = Len(store.rows) + 1
           /\ SubSeq(store'.rows, 1, Len(store.rows)) = store.rows
           /\ store'.rows[Len(store'.rows)] = result[phone_number]
           /\ ~store.exists => store.rows = <<>> ]_vars

C9_Witness ==
    /\ pc = "increment"
    /\ Len(store.rows) = 2
    /\ store.rows[1].phone # store.rows[2].phone

\* C10 as claimed: whenever the process is gone, however it ended, the
\* resume file holds a decimal numeral.
C10_AsClaimed ==
    pc = "off" => IsNumeral(read_last_checked_number(file))

\* ---------------------------------------------------------------------- C11
\* The clients of the run holding a connection.
OpenClients == { i \in DOMAIN clients : clients[i] \in {"connected", "authorized"} }

\* The steps of validate_users and of the get_names it calls.
ScanSteps ==
    { "while", "import", "delete", "flood_sleep", "retry", "get_names_return",
      "classify", "save", "increment", "open", "write", "sleep", "break" }

\* C11: at every moment of a run at most one client holds a connection, and
\* none does when the next proxy's client is about to connect; during the scan
\* the open client is the one login returned, the last one made, and every
\* request of a lookup was sent on it.
C11_OneConnection ==
    /\ Cardinality(OpenClients) <= 1
    /\ pc = "connect" => OpenClients = {}
    /\ pc \in ScanSteps =>
          /\ client = Len(clients)
          /\ OpenClients = {client}
    /\ \A i \in DOMAIN sent : sent[i].on = client /\ OpenClients = {client}

\* A lookup is answered on the second proxy's client after the first proxy's
\* client failed and was disconnected, an earlier number being classified.
C11_Witness ==
    /\ pc = "delete"
    /\ clients = <<"disconnected", "authorized">>
    /\ checked # <<>>
    /\ sent # <<>>
    /\ sent[1].on = 2

\* ---------------------------------------------------------------------- C12
\* The round trip of the resume file: write_last_checked_number(number) for
\* decimal numerals, then read_last_checked_number(), from every start file.
CursorDigits == {"0", "1", "9"}

Numerals == SeqsUpTo(CursorDigits, MaxNumeralLen) \ {<<>>}

InitCursor ==
    /\ Init
    /\ proxyFile = <<>>

\* A call write_last_checked_number(number); start.persisted keeps the numeral
\* written before it.
write_last_checked_number_call ==
    /\ pc \in {"off", "sleep"}
    /\ advances < MaxAdvances
    /\ \E number \in Numerals : phone_number' = number
    /\ start' = [start EXCEPT !.persisted = persisted]
    /\ pc' = "open"
    /\ UNCHANGED << durable, found, exit, runs, advances, proxies, loginVars, result,
                    lookupVars, slept, lookedUp, checked, persisted, snap >>

\* A call read_last_checked_number() once the write has returned; start.cursor
\* keeps what it returns.
read_last_checked_number_call ==
    /\ pc = "sleep"
    /\ start' = [start EXCEPT !.cursor = read_last_checked_number(file)]
    /\ pc' = "off"
    /\ UNCHANGED << durable, found, exit, runs, advances, proxies, loginVars,
                    phone_number, result, lookupVars, slept, lookedUp, checked,
                    persisted, snap >>

NextCursor ==
    \/ write_last_checked_number_call
    \/ write_last_checked_number_open
    \/ write_last_checked_number_write
    \/ read_last_checked_number_call

SpecCursor == InitCursor /\ [][NextCursor]_vars

\* C12: once a numeral is written, the resume file reads back as exactly that
\* numeral, whatever the file held before (a start file or an earlier, longer
\* or shorter, numeral).
C12_RoundTrip ==
    /\ pc = "sleep" => read_last_checked_number(file) = phone_number
    /\ (pc = "off" /\ advances >= 1) => start.cursor = phone_number

\* A second, shorter numeral was written over a longer one and read back.
C12_Witness ==
    /\ pc = "off"
    /\ advances = 2
    /\ start.persisted = <<"1", "9">>
    /\ phone_number = <<"9">>
    /\ start.cursor = <<"9">>

\* ---------------------------------------------------------------------- C13
\* C13 as claimed: a failure on one proxy, the failure of its tear-down
\* included, never aborts login, so login ends without a session only when
\* every proxy of the list has been attempted.
C13_AsClaimed ==
    (pc = "off" /\ exit \in {"AllProxiesFailed", "DisconnectError"})
    => Len(clients) = Len(proxies)

\* ---------------------------------------------------------------------- C14
\* C14: once a number has been classified in the run, the loop comes back to
\* its head, and sends the import request for the next number, only with the
\* full fixed delay as the last pause, whatever rate-limit waits the check
\* before took; the import request of a retry follows the signalled wait and
\* nothing else.
C14_DelaysCompose ==
    /\ (pc = "while" /\ checked # <<>>) => slept = delay
    /\ (pc = "import" /\ depth = 1 /\ checked # <<>>) => slept = delay
    /\ (pc = "import" /\ depth >= 2)
         => /\ answer.resp.kind = "FloodWaitError"
            /\ slept = answer.resp.seconds

\* The loop is back at its head after a check whose answer came on a retry.
C14_Witness ==
    /\ pc = "while"
    /\ checked # <<>>
    /\ answer.retries >= 1
    /\ slept = delay

\* ---------------------------------------------------------------------- C15
\* The requests a call of get_names can have sent for gn_phone: the import
\* request, then the delete request for the id of the first user imported.
ImportSent(i) == sent[i].req = "import" /\ sent[i].arg = gn_phone

DeleteSent(i) == sent[i].req = "delete" /\ sent[i].arg = users[1].id

\* C15 as claimed: get_names returns NotRegistered for 0 matches and
\* AmbiguousMatch for more than 1, having sent the import request only, and
\* for exactly 1 match it returns Found, filled from the delete answer,
\* having sent the import request and one delete request for the matched id.
C15_AsClaimed ==
    pc = "get_names_return"
    => CASE Len(users) = 0 ->
              /\ Classify(gn_result) = "NotRegistered"
              /\ Len(sent) = 1 /\ ImportSent(1)
         [] Len(users) = 1 ->
              /\ Classify(gn_result) = "Found"
              /\ Len(sent) = 2 /\ ImportSent(1) /\ DeleteSent(2)
              /\ gn_result = FoundResult(answer.resp.users[1])
         [] OTHER ->
              /\ Classify(gn_result) = "AmbiguousMatch"
              /\ Len(sent) = 1 /\ ImportSent(1)

\* C15, amended: every call of get_names sends one import request and, after
\* it, at most one delete request, which is sent exactly when the import
\* matched one account and is for that account's id; what it returns is
\* NotRegistered for 0 matches, AmbiguousMatch for more than 1, and for 1
\* match it is Found exactly when the delete answer carries a user, and then
\* every field is that user's.
C15_ByMatchCount ==
    /\ Len(sent) <= 2
    /\ pc = "import" => sent = <<>>
    /\ Len(sent) >= 1 => ImportSent(1)
    /\ Len(sent) = 2 => Len(users) = 1 /\ DeleteSent(2)
    /\ pc = "delete" => Len(users) = 1 /\ Len(sent) = 1
    /\ pc = "get_names_return"
       => /\ Len(users) = 0
               => Classify(gn_result) = "NotRegistered" /\ Len(sent) = 1
          /\ Len(users) > 1
               => Classify(gn_result) = "AmbiguousMatch" /\ Len(sent) = 1
          /\ Len(users) = 1
               => /\ Len(sent) = 2
                  /\ Classify(gn_result) = "Found"
                       <=> AnswerClass(answer) = "Found"
                  /\ AnswerClass(answer) = "Found"
                       => gn_result = FoundResult(answer.resp.users[1])

\* get_names is about to return Found after one import and one delete.
C15_Witness ==
    /\ pc = "get_names_return"
    /\ Len(users) = 1
    /\ Len(sent) = 2
    /\ sent[2].arg = users[1].id
    /\ AnswerClass(answer) = "Found"
    /\ gn_result = FoundResult(answer.resp.users[1])

\* ---------------------------------------------------------------------- C16
\* The delete answer lacks the user: its user list is None or is empty.
UserAbsent(a) ==
    /\ a.step = "delete"
    /\ \/ a.resp.kind = "users_none"
       \/ a.resp.kind = "users" /\ a.resp.users = <<>>

\* C16 as claimed: a delete answer without the user never ends the run with
\* an exception of get_names; get_names returns the TransientError result.
C16_AsClaimed ==
    UserAbsent(answer)
    => /\ exit # "Fatal"
       /\ pc = "get_names_return" => Classify(gn_result) = "TransientError"

\* ---------------------------------------------------------------------- C17
\* An attempt of login on one proxy is over: login returns or the handler
\* of line 183 is entered.
AttemptOver == pc \in {"return", "except"}

\* C17 as claimed: an attempt that found the session unauthorized has asked
\* for the code once, and for the password once exactly when sign_in reported
\* the second factor; an attempt that found it authorized has asked nothing.
C17_AsClaimed ==
    AttemptOver
    => /\ "unauthorized" \in attempt
            => /\ codePrompts = 1
               /\ pwPrompts = IF "password_needed" \in attempt THEN 1 ELSE 0
       /\ "authorized" \in attempt => codePrompts = 0 /\ pwPrompts = 0

\* C17, amended: an attempt asks for the code once exactly when it found the
\* session unauthorized and the code request went through, for the password
\* once exactly when sign_in then reported the second factor, and never more
\* than once for either; an attempt that found the session authorized, or
\* whose code request failed, asks nothing.
C17_Prompts ==
    /\ codePrompts <= 1
    /\ pwPrompts <= codePrompts
    /\ "code_sent" \in attempt => "unauthorized" \in attempt
    /\ "password_needed" \in attempt => "code_sent" \in attempt
    /\ AttemptOver
       => /\ codePrompts = IF "code_sent" \in attempt THEN 1 ELSE 0
          /\ pwPrompts = IF "password_needed" \in attempt THEN 1 ELSE 0
          /\ "authorized" \in attempt => codePrompts = 0 /\ pwPrompts = 0

\* login returns from an attempt that asked for the code and the password.
C17_Witness ==
    /\ pc = "return"
    /\ attempt = {"unauthorized", "code_sent", "password_needed"}
    /\ codePrompts = 1
    /\ pwPrompts = 1

\* ---------------------------------------------------------------------- C18
\* C18 as claimed: no two rows of the store are for the same phone number,
\* whatever terminations and restarts the scan went through.
C18_AsClaimed ==
    \A i, j \in DOMAIN store.rows :
        i < j => store.rows[i].phone # store.rows[j].phone

\* ---------------------------------------------------------------------- C19
\* The store has a row for number n.
HasRow(n) == \E i \in DOMAIN store.rows : store.rows[i].phone = n

C20_GuardAlwaysTrue ==
    pc = "while"
    => /\ phone_number \notin DOMAIN result
       /\ \A k \in DOMAIN result :
            (IntParses(k) /\ IntParses(phone_number)) => int(k) < int(phone_number)
       /\ phone_number = read_last_checked_number(file)

\* The loop is at its head for the third time, two numbers being keys of
\* result.
C20_Witness ==
    /\ pc = "while"
    /\ Len(checked) = 2
    /\ Cardinality(DOMAIN result) = 2
    /\ phone_number \notin DOMAIN result
    /\ phone_number = read_last_checked_number(file)

====
